---------------------------- MODULE Spec2Model ----------------------------
(***************************************************************************)
(* Block write threshold notification (block/write-threshold.c).           *)
(*                                                                         *)
(* Two guards share one contract:                                          *)
(*   - the legacy adapter keeps the threshold in the node's                *)
(*     write_threshold_offset field and hooks the node's before-write      *)
(*     notifier list;                                                      *)
(*   - the write-threshold filter driver keeps the threshold in bs->opaque *)
(*     and checks it in its write, zero-write and discard entry points.    *)
(*                                                                         *)
(* The graph modelled here has a plain node "drive0", and a filter node    *)
(* "filter0" whose child is the plain node "child0".                       *)
(***************************************************************************)
EXTENDS Integers, Sequences, FiniteSets, TLC

(***************************************************************************)
(* Machine integers.  uint64_t is scaled to WordBits bits; all arithmetic  *)
(* of the C code is taken modulo 2^WordBits.                               *)
(***************************************************************************)
WordBits == 24

UINT64_MOD == 2 ^ WordBits

UINT64_MAX == UINT64_MOD - 1

INT64_MAX == (UINT64_MOD \div 2) - 1

\* conversion of any integer value to uint64_t
ToUint64(x) == x % UINT64_MOD

\* conversion of a uint64_t value to int64_t (two's complement)
ToInt64(x) == IF ToUint64(x) > INT64_MAX THEN ToUint64(x) - UINT64_MOD ELSE ToUint64(x)

\* uint64_t addition and subtraction
Add64(a, b) == ToUint64(a + b)

Sub64(a, b) == ToUint64(a - b)

(***************************************************************************)
(* Values used by the unit tests.                                          *)
(***************************************************************************)
Threshold4MiB == 4194304

Threshold15MiB == 15728640

KiB == 1024

(***************************************************************************)
(* Exceedance engine.                                                      *)
(***************************************************************************)
\* the gap between the mark and the request start left out
bdrv_write_threshold_exceeded_drops_gap(threshold, offset, bytes) ==
    IF threshold # 0
    THEN IF offset > threshold
         THEN bytes
         ELSE IF Add64(offset, bytes) > threshold
              THEN Sub64(Add64(offset, bytes), threshold)
              ELSE 0
    ELSE 0

\* the "threshold not set" test left out
bdrv_write_threshold_exceeded_unguarded(threshold, offset, bytes) ==
    IF offset > threshold
    THEN Add64(Sub64(offset, threshold), bytes)
    ELSE IF Add64(offset, bytes) > threshold
         THEN Sub64(Add64(offset, bytes), threshold)
         ELSE 0

\* the gap offset - threshold held in a variable of half the width
bdrv_write_threshold_exceeded_narrow(threshold, offset, bytes) ==
    IF threshold # 0
    THEN IF offset > threshold
         THEN Add64(Sub64(offset, threshold) % (2 ^ (WordBits \div 2)), bytes)
         ELSE IF Add64(offset, bytes) > threshold
              THEN Sub64(Add64(offset, bytes), threshold)
              ELSE 0
    ELSE 0

bdrv_write_threshold_exceeded(threshold, offset, bytes) ==
    IF threshold # 0
    THEN IF offset > threshold
         THEN Add64(Sub64(offset, threshold), bytes)
         ELSE IF Add64(offset, bytes) > threshold
              THEN Sub64(Add64(offset, bytes), threshold)
              ELSE 0
    ELSE 0

\* The values, before reduction modulo 2^64, of the arithmetic expressions
\* that bdrv_write_threshold_exceeded evaluates on the path it takes.
exceeded_intermediates(threshold, offset, bytes) ==
    IF threshold # 0
    THEN IF offset > threshold
         THEN {offset - threshold, Sub64(offset, threshold) + bytes}
         ELSE IF Add64(offset, bytes) > threshold
              THEN {offset + bytes, Add64(offset, bytes) - threshold}
              ELSE {offset + bytes}
    ELSE {}

(***************************************************************************)
(* The block graph.                                                        *)
(***************************************************************************)
NodeNames == {"drive0", "filter0", "child0"}

\* a name the node registry does not know
UnknownNames == {"nodeX"}

FilterNode == "filter0"

\* child_bs(bs): the node behind bs->file of the filter node
child_bs(bs) == "child0"

\* the nodes that receive guest requests (child0 is reached through filter0)
TopNodes == {"drive0", "filter0"}

\* a guard is the legacy adapter of a node or the filter driver's state
Guards == {<<"legacy", n>> : n \in NodeNames} \cup {<<"filter", FilterNode>>}

(***************************************************************************)
(* Inputs.                                                                 *)
(***************************************************************************)
\* threshold_bytes of the configuration command and of the open option
SetValues == {0, Threshold4MiB, Threshold15MiB}

\* request ranges: below the 4 MiB mark, ending exactly at it, straddling
\* it, and starting beyond the 15 MiB mark
Ranges ==
    {[offset |-> KiB, bytes |-> KiB],
     [offset |-> Threshold4MiB - KiB, bytes |-> KiB],
     [offset |-> Threshold4MiB - KiB, bytes |-> 2 * KiB],
     [offset |-> Threshold15MiB + 1, bytes |-> KiB]}

WriteKinds == {"pwritev", "pwrite_zeroes", "pdiscard"}

\* request flags (none, or one flag bit set)
Flags == {0, 1}

\* what the child returns for a forwarded request
ChildResults == {"0", "-EIO"}

\* the "write-threshold" option of the filter: absent, malformed or a number
Opts ==
    {[kind |-> "absent", value |-> 0], [kind |-> "invalid", value |-> 0]}
        \cup {[kind |-> "number", value |-> v] : v \in SetValues}

\* arguments of the exceedance engine when it is checked on its own
ExcSpread == 2

ExcValues ==
    (0 .. ExcSpread) \cup ((UINT64_MAX - ExcSpread) .. UINT64_MAX)
        \cup {INT64_MAX, INT64_MAX + 1}
        \cup {KiB, 2 * KiB, Threshold4MiB - KiB, Threshold4MiB}

(***************************************************************************)
(* State.                                                                  *)
(***************************************************************************)
VARIABLES
    write_threshold_offset,   \* [node -> uint64_t]: bs->write_threshold_offset
    write_threshold_notifier, \* [node -> Nat]: times bs->write_threshold_notifier
                              \*   is linked into the node's before-write list
    opaque,                   \* uint64_t: *(uint64_t *)bs->opaque of filter0
    filter_open,              \* filter0 is open (exists in the graph)
    sent,                     \* BLOCK_WRITE_THRESHOLD events sent by the last
                              \*   operation, in order
    fired,                    \* [guard -> Nat]: events the guard has sent since
                              \*   it was last armed (history)
    prev,                     \* [guard -> uint64_t]: the thresholds before the
                              \*   last operation (history)
    last,                     \* the last operation, its arguments and result,
                              \*   and the guards it armed again after they
                              \*   had fired (history)
    trace,                    \* what the last operation did, in order: hooks
                              \*   called, events, hook and threshold updates,
                              \*   requests issued to the child (history)
    aio_held,                 \* times the node's AioContext is held
    exc_threshold, exc_offset, exc_bytes, \* arguments of a direct call of
    exc_amount, exc_pc,                   \*   bdrv_write_threshold_exceeded
    co_bs,                    \* the node that concurrent requests and the
                              \*   command address
    pc,                       \* [process -> where the process is in its code]
    local,                    \* [process -> its arguments and C locals]
    aio_owner,                \* the process running in the node's AioContext,
                              \*   "" when the context is free
    co_log                    \* events sent and requests issued by the
                              \*   processes, in order (history)

node_vars == <<write_threshold_offset, write_threshold_notifier, opaque,
               filter_open, sent, fired, prev, last, trace, aio_held>>

exc_vars == <<exc_threshold, exc_offset, exc_bytes, exc_amount, exc_pc>>

conc_vars == <<co_bs, pc, local, aio_owner, co_log>>

vars == <<node_vars, exc_vars, conc_vars>>

\* the mutable state the C functions work on, as one value
\* (child_ret is what the child will return, ret what the operation returns)
State == [wto |-> write_threshold_offset, ntf |-> write_threshold_notifier,
          opaque |-> opaque, sent |-> <<>>, trace |-> <<>>, aio |-> aio_held,
          child_ret |-> "0", ret |-> "0"]

\* one entry of the trace
Step(ev, node) == [ev |-> ev, node |-> node, kind |-> "", offset |-> 0,
                   bytes |-> 0, flags |-> 0, val |-> 0, ret |-> ""]

Log(s, step) == [s EXCEPT !.trace = Append(@, step)]

\* the threshold a guard holds in state s
GuardThreshold(s, g) == IF g[1] = "legacy" THEN s.wto[g[2]] ELSE s.opaque

(***************************************************************************)
(* Collaborators: the notifier list, the event transport, the registry.    *)
(***************************************************************************)
\* link the notifier into the node's before-write list
bdrv_add_before_write_notifier(s, bs) ==
    Log([s EXCEPT !.ntf[bs] = @ + 1], Step("register", bs))

\* unlink the notifier from the list it is in
notifier_with_return_remove(s, bs) ==
    Log([s EXCEPT !.ntf[bs] = IF @ > 0 THEN @ - 1 ELSE 0], Step("remove", bs))

\* send one BLOCK_WRITE_THRESHOLD event; guard records which guard sent it
qapi_event_send_block_write_threshold(s, guard, node_name, amount, threshold) ==
    Log([s EXCEPT !.sent = Append(@, [guard |-> guard,
                                      node_name |-> node_name,
                                      amount |-> amount,
                                      write_threshold |-> threshold])],
        [Step("event", guard[2]) EXCEPT !.kind = guard[1], !.val = amount])

aio_context_acquire(s, bs) ==
    Log([s EXCEPT !.aio = @ + 1], Step("acquire", bs))

aio_context_release(s, bs) ==
    Log([s EXCEPT !.aio = @ - 1], Step("release", bs))

\* the node of that name, or "" (NULL) when the registry has none
bdrv_find_node(node_name, is_open) ==
    IF node_name \in NodeNames /\ (node_name = FilterNode => is_open)
    THEN node_name
    ELSE ""

(***************************************************************************)
(* Legacy adapter.                                                         *)
(***************************************************************************)
bdrv_write_threshold_get_legacy(s, bs) == s.wto[bs]

bdrv_write_threshold_is_set_legacy(s, bs) == s.wto[bs] > 0

\* the hook is unlinked but the threshold is left in place
write_threshold_disable_legacy_keeps_value(s, bs) ==
    IF bdrv_write_threshold_is_set_legacy(s, bs)
    THEN notifier_with_return_remove(s, bs)
    ELSE s

\* the threshold is cleared but the hook stays linked
write_threshold_disable_legacy_keeps_hook(s, bs) ==
    IF bdrv_write_threshold_is_set_legacy(s, bs)
    THEN Log([s EXCEPT !.wto[bs] = 0], Step("clear", bs))
    ELSE s

write_threshold_disable_legacy(s, bs) ==
    IF bdrv_write_threshold_is_set_legacy(s, bs)
    THEN Log([notifier_with_return_remove(s, bs) EXCEPT !.wto[bs] = 0],
             Step("clear", bs))
    ELSE s

\* the guard is left armed after the event
before_write_notify_no_autodisable(s, bs, offset, bytes) ==
    LET threshold == bdrv_write_threshold_get_legacy(s, bs)
        amount == bdrv_write_threshold_exceeded(threshold, ToUint64(offset),
                                                ToUint64(bytes))
        s0 == Log(s, [Step("hook", bs) EXCEPT !.val = threshold])
        s1 == IF amount > 0
              THEN qapi_event_send_block_write_threshold(
                       s0, <<"legacy", bs>>, bs, amount, s0.wto[bs])
              ELSE s0
    IN  Log(s1, [Step("hook_ret", bs) EXCEPT !.ret = "0"])

\* the event is sent after the auto-disable
before_write_notify_event_after_disable(s, bs, offset, bytes) ==
    LET threshold == bdrv_write_threshold_get_legacy(s, bs)
        amount == bdrv_write_threshold_exceeded(threshold, ToUint64(offset),
                                                ToUint64(bytes))
        s0 == Log(s, [Step("hook", bs) EXCEPT !.val = threshold])
        s1 == IF amount > 0
              THEN LET d == write_threshold_disable_legacy(s0, bs)
                   IN  qapi_event_send_block_write_threshold(
                           d, <<"legacy", bs>>, bs, amount, d.wto[bs])
              ELSE s0
    IN  Log(s1, [Step("hook_ret", bs) EXCEPT !.ret = "0"])

\* the hook calls the callback; the callback's result is "0" (success)
before_write_notify(s, bs, offset, bytes) ==
    LET threshold == bdrv_write_threshold_get_legacy(s, bs)
        amount == bdrv_write_threshold_exceeded(threshold, ToUint64(offset),
                                                ToUint64(bytes))
        s0 == Log(s, [Step("hook", bs) EXCEPT !.val = threshold])
        s1 == IF amount > 0
              THEN write_threshold_disable_legacy(
                       qapi_event_send_block_write_threshold(
                           s0, <<"legacy", bs>>, bs, amount, s0.wto[bs]),
                       bs)
              ELSE s0
    IN  Log(s1, [Step("hook_ret", bs) EXCEPT !.ret = "0"])

write_threshold_register_notifier(s, bs) == bdrv_add_before_write_notifier(s, bs)

\* threshold_bytes is an int64_t here and is stored back into a uint64_t
write_threshold_update_legacy(s, bs, threshold_bytes) ==
    Log([s EXCEPT !.wto[bs] = ToUint64(threshold_bytes)],
        [Step("update", bs) EXCEPT !.val = ToUint64(threshold_bytes)])

\* arming stores the value but does not install the hook
bdrv_write_threshold_set_legacy_unhooked(s, bs, threshold_bytes) ==
    IF bdrv_write_threshold_is_set_legacy(s, bs)
    THEN IF threshold_bytes > 0
         THEN write_threshold_update_legacy(s, bs, ToInt64(threshold_bytes))
         ELSE write_threshold_disable_legacy(s, bs)
    ELSE IF threshold_bytes > 0
         THEN write_threshold_update_legacy(s, bs, ToInt64(threshold_bytes))
         ELSE s

\* an armed guard keeps its first value
bdrv_write_threshold_set_legacy_keeps_first(s, bs, threshold_bytes) ==
    IF bdrv_write_threshold_is_set_legacy(s, bs)
    THEN IF threshold_bytes > 0
         THEN s
         ELSE write_threshold_disable_legacy(s, bs)
    ELSE IF threshold_bytes > 0
         THEN write_threshold_update_legacy(
                  write_threshold_register_notifier(s, bs), bs,
                  ToInt64(threshold_bytes))
         ELSE s

\* a disable request on a disarmed guard is not discarded
bdrv_write_threshold_set_legacy_registers_always(s, bs, threshold_bytes) ==
    IF bdrv_write_threshold_is_set_legacy(s, bs)
    THEN IF threshold_bytes > 0
         THEN write_threshold_update_legacy(s, bs, ToInt64(threshold_bytes))
         ELSE write_threshold_disable_legacy(s, bs)
    ELSE write_threshold_update_legacy(
             write_threshold_register_notifier(s, bs), bs,
             ToInt64(threshold_bytes))

bdrv_write_threshold_set_legacy(s, bs, threshold_bytes) ==
    IF bdrv_write_threshold_is_set_legacy(s, bs)
    THEN IF threshold_bytes > 0
         THEN write_threshold_update_legacy(s, bs, ToInt64(threshold_bytes))
         ELSE write_threshold_disable_legacy(s, bs)
    ELSE IF threshold_bytes > 0
         THEN write_threshold_update_legacy(
                  write_threshold_register_notifier(s, bs), bs,
                  ToInt64(threshold_bytes))
         ELSE s

\* result: the state and the error set through errp ("" when none)
\* the context is taken before the lookup and kept when the lookup fails
qmp_block_set_write_threshold_leaks(s, node_name, threshold_bytes, is_open) ==
    LET bs == bdrv_find_node(node_name, is_open)
    IN  IF bs = ""
        THEN [s |-> aio_context_acquire(s, node_name), err |-> "not found"]
        ELSE [s |-> aio_context_release(
                        bdrv_write_threshold_set_legacy(
                            aio_context_acquire(s, bs), bs, threshold_bytes),
                        bs),
              err |-> ""]

qmp_block_set_write_threshold(s, node_name, threshold_bytes, is_open) ==
    LET bs == bdrv_find_node(node_name, is_open)
    IN  IF bs = ""
        THEN [s |-> s, err |-> "not found"]
        ELSE [s |-> aio_context_release(
                        bdrv_write_threshold_set_legacy(
                            aio_context_acquire(s, bs), bs, threshold_bytes),
                        bs),
              err |-> ""]

(***************************************************************************)
(* Filter driver.                                                          *)
(***************************************************************************)
bdrv_write_threshold_is_set(s, bs) == s.opaque > 0

bdrv_write_threshold_disable(s, bs) ==
    IF bdrv_write_threshold_is_set(s, bs)
    THEN Log([s EXCEPT !.opaque = 0], Step("clear_opaque", bs))
    ELSE s

\* threshold_bytes is an int64_t here and is stored back into a uint64_t
bdrv_write_threshold_update(s, bs, threshold_bytes) ==
    Log([s EXCEPT !.opaque = ToUint64(threshold_bytes)],
        [Step("update_opaque", bs) EXCEPT !.val = ToUint64(threshold_bytes)])

\* the guard is left armed after the event
bdrv_write_threshold_check_amount_no_autodisable(s, bs, offset, bytes) ==
    LET threshold == s.opaque
        amount == bdrv_write_threshold_exceeded(threshold, offset, bytes)
        s0 == Log(s, [Step("check", bs) EXCEPT !.val = threshold])
    IN  IF amount > 0
        THEN qapi_event_send_block_write_threshold(
                 s0, <<"filter", bs>>, child_bs(bs), amount, threshold)
        ELSE s0

\* the auto-disable is done whether or not the request exceeds
bdrv_write_threshold_check_amount_always_disables(s, bs, offset, bytes) ==
    LET threshold == s.opaque
        amount == bdrv_write_threshold_exceeded(threshold, offset, bytes)
        s0 == Log(s, [Step("check", bs) EXCEPT !.val = threshold])
    IN  bdrv_write_threshold_disable(
            IF amount > 0
            THEN qapi_event_send_block_write_threshold(
                     s0, <<"filter", bs>>, child_bs(bs), amount, threshold)
            ELSE s0,
            bs)

bdrv_write_threshold_check_amount(s, bs, offset, bytes) ==
    LET threshold == s.opaque
        amount == bdrv_write_threshold_exceeded(threshold, offset, bytes)
        s0 == Log(s, [Step("check", bs) EXCEPT !.val = threshold])
    IN  IF amount > 0
        THEN bdrv_write_threshold_disable(
                 qapi_event_send_block_write_threshold(
                     s0, <<"filter", bs>>, child_bs(bs), amount, threshold),
                 bs)
        ELSE s0

(***************************************************************************)
(* Block layer: a write-shaped request on a node first runs the node's     *)
(* before-write notifiers, then the node's driver.                         *)
(***************************************************************************)
\* the hooks of the list are called in turn; a hook that fails stops the
\* walk and fails the request
RECURSIVE notify_n(_, _, _, _, _)
notify_n(s, bs, offset, bytes, n) ==
    IF n = 0
    THEN s
    ELSE LET s1 == before_write_notify(s, bs, offset, bytes)
             r == s1.trace[Len(s1.trace)].ret
         IN  IF r # "0"
             THEN [s1 EXCEPT !.ret = r]
             ELSE notify_n(s1, bs, offset, bytes, n - 1)

\* every notifier linked when the request arrives is called once
notifier_with_return_list_notify(s, bs, offset, bytes) ==
    notify_n([s EXCEPT !.ret = "0"], bs, offset, bytes, s.ntf[bs])

\* a request issued to node bs, the child of the filter: it is logged, the
\* node's own before-write hooks run for a write-shaped request, and the
\* node's result is returned
bdrv_co_forward(s, bs, kind, offset, bytes, flags) ==
    LET s0 == Log(s, [Step("forward", bs) EXCEPT !.kind = kind,
                                               !.offset = offset,
                                               !.bytes = bytes,
                                               !.flags = flags,
                                               !.ret = s.child_ret])
        s1 == IF kind \in WriteKinds
              THEN notifier_with_return_list_notify(s0, bs, offset, bytes)
              ELSE s0
    IN  [s1 EXCEPT !.ret = IF kind \in WriteKinds /\ s1.ret # "0"
                           THEN s1.ret
                           ELSE s.child_ret]

\* the request is refused once the threshold has been crossed
write_threshold_co_pwritev_rejects(s, bs, offset, bytes, flags) ==
    LET s1 == bdrv_write_threshold_check_amount(s, bs, offset, bytes)
    IN  IF Len(s1.sent) > Len(s.sent)
        THEN [s1 EXCEPT !.ret = "-ENOSPC"]
        ELSE bdrv_co_forward(s1, child_bs(bs), "pwritev", offset, bytes,
                             flags)

\* the request is issued to the child before the check
write_threshold_co_pwritev_forwards_first(s, bs, offset, bytes, flags) ==
    LET s1 == bdrv_co_forward(s, child_bs(bs), "pwritev", offset, bytes,
                              flags)
    IN  [bdrv_write_threshold_check_amount(s1, bs, offset, bytes)
            EXCEPT !.ret = s1.ret]

write_threshold_co_pwritev(s, bs, offset, bytes, flags) ==
    bdrv_co_forward(bdrv_write_threshold_check_amount(s, bs, offset, bytes),
                    child_bs(bs), "pwritev", offset, bytes, flags)

\* offset is an int64_t and bytes an int; both become uint64_t for the check
write_threshold_co_pwrite_zeroes(s, bs, offset, bytes, flags) ==
    bdrv_co_forward(bdrv_write_threshold_check_amount(
                        s, bs, ToUint64(offset), ToUint64(bytes)),
                    child_bs(bs), "pwrite_zeroes", offset, bytes, flags)

\* a discard has no flags
write_threshold_co_pdiscard(s, bs, offset, bytes) ==
    bdrv_co_forward(bdrv_write_threshold_check_amount(
                        s, bs, ToUint64(offset), ToUint64(bytes)),
                    child_bs(bs), "pdiscard", offset, bytes, 0)

\* the check of the write path copied into the read path
write_threshold_co_preadv_checks(s, bs, offset, bytes, flags) ==
    bdrv_co_forward(bdrv_write_threshold_check_amount(s, bs, offset, bytes),
                    child_bs(bs), "preadv", offset, bytes, flags)

write_threshold_co_preadv(s, bs, offset, bytes, flags) ==
    bdrv_co_forward(s, child_bs(bs), "preadv", offset, bytes, flags)

write_threshold_co_flush(s, bs) ==
    bdrv_co_forward(s, child_bs(bs), "flush", 0, 0, 0)

write_threshold_getlength(s, bs) ==
    bdrv_co_forward(s, child_bs(bs), "getlength", 0, 0, 0)

\* a write-shaped request on a top node: the node's before-write hooks, then
\* the node's driver unless a hook failed
bdrv_co_request(s, bs, kind, offset, bytes, flags) ==
    LET s1 == notifier_with_return_list_notify(s, bs, offset, bytes)
    IN  IF s1.ret # "0"
        THEN s1
        ELSE IF bs # FilterNode
             THEN [s1 EXCEPT !.ret = s.child_ret]
             ELSE CASE kind = "pwritev" ->
                           write_threshold_co_pwritev(s1, bs, offset, bytes,
                                                      flags)
                    [] kind = "pwrite_zeroes" ->
                           write_threshold_co_pwrite_zeroes(s1, bs, offset,
                                                            bytes, flags)
                    [] kind = "pdiscard" ->
                           write_threshold_co_pdiscard(s1, bs, offset, bytes)

\* a read, flush or length query on the filter node
bdrv_co_query(s, bs, kind, offset, bytes, flags) ==
    CASE kind = "preadv" -> write_threshold_co_preadv(s, bs, offset, bytes,
                                                      flags)
      [] kind = "flush" -> write_threshold_co_flush(s, bs)
      [] kind = "getlength" -> write_threshold_getlength(s, bs)

(***************************************************************************)
(* Opening and closing the filter node.                                    *)
(***************************************************************************)
qemu_opt_get_number(opt, defval) ==
    IF opt.kind = "number" THEN opt.value ELSE defval

\* the default of the option taken to be the largest offset
write_threshold_open_default_max(s, bs, child_ok, opt) ==
    IF ~child_ok \/ opt.kind = "invalid"
    THEN [s |-> s, ret |-> "-EINVAL"]
    ELSE [s |-> bdrv_write_threshold_update(
                    s, bs, ToInt64(qemu_opt_get_number(opt, UINT64_MAX))),
          ret |-> "0"]

write_threshold_open(s, bs, child_ok, opt) ==
    IF ~child_ok
    THEN [s |-> s, ret |-> "-EINVAL"]
    ELSE IF opt.kind = "invalid"
         THEN [s |-> s, ret |-> "-EINVAL"]
         ELSE [s |-> bdrv_write_threshold_update(
                         s, bs, ToInt64(qemu_opt_get_number(opt, 0))),
               ret |-> "0"]

write_threshold_close(s, bs) == s

\* the node is deleted: its state, the legacy fields included, is gone and a
\* node opened later under the name starts from zeroed memory
bdrv_delete(s, bs) ==
    [s EXCEPT !.wto[bs] = 0, !.ntf[bs] = 0, !.opaque = 0]

(***************************************************************************)
(* The state machine.                                                      *)
(***************************************************************************)
Now(g) == GuardThreshold(State, g)

\* events of s.sent that guard g sent
SentBy(seq, g) == Cardinality({i \in 1 .. Len(seq) : seq[i].guard = g})

\* install state s as the next state, op being the operation that led to it
Commit(s, op) ==
    /\ write_threshold_offset' = s.wto
    /\ write_threshold_notifier' = s.ntf
    /\ opaque' = s.opaque
    /\ sent' = s.sent
    /\ trace' = s.trace
    /\ aio_held' = s.aio
    /\ prev' = [g \in Guards |-> Now(g)]
    /\ fired' = [g \in Guards |->
                   IF Now(g) = 0 /\ GuardThreshold(s, g) > 0
                   THEN 0
                   ELSE fired[g] + SentBy(s.sent, g)]
    /\ last' = [op EXCEPT !.rearmed =
                   {g \in Guards : /\ fired[g] > 0
                                   /\ Now(g) = 0
                                   /\ GuardThreshold(s, g) > 0}]
    /\ UNCHANGED <<exc_vars, conc_vars>>

NoOp == [op |-> "init", node |-> "", kind |-> "", value |-> 0,
         offset |-> 0, bytes |-> 0, flags |-> 0, ret |-> "",
         child_ret |-> "", rearmed |-> {}]

InitNodes ==
    /\ write_threshold_offset = [n \in NodeNames |-> 0]
    /\ write_threshold_notifier = [n \in NodeNames |-> 0]
    /\ opaque = 0
    /\ filter_open = FALSE
    /\ sent = <<>>
    /\ trace = <<>>
    /\ aio_held = 0
    /\ fired = [g \in Guards |-> 0]
    /\ prev = [g \in Guards |-> 0]
    /\ last = NoOp

\* the processes of the concurrent specification: two request coroutines
\* and the monitor command
Writers == {"w1", "w2"}

Procs == Writers \cup {"qmp"}

NoLocals == [offset |-> 0, bytes |-> 0, value |-> 0, threshold |-> 0,
             amount |-> 0, ret_to |-> ""]

\* no direct call of the engine is under way
InitNoCall ==
    /\ exc_threshold = 0
    /\ exc_offset = 0
    /\ exc_bytes = 0
    /\ exc_amount = 0
    /\ exc_pc = "idle"

\* no process is under way
InitNoProcs ==
    /\ co_bs = "drive0"
    /\ pc = [p \in Procs |-> "off"]
    /\ local = [p \in Procs |-> NoLocals]
    /\ aio_owner = ""
    /\ co_log = <<>>

Init ==
    /\ InitNodes
    /\ InitNoCall
    /\ InitNoProcs

\* the operator's command block-set-write-threshold
SetWriteThreshold(node_name, threshold_bytes) ==
    LET r == qmp_block_set_write_threshold(State, node_name, threshold_bytes,
                                           filter_open)
    IN  /\ Commit(r.s, [NoOp EXCEPT !.op = "set", !.node = node_name,
                                    !.value = threshold_bytes,
                                    !.ret = r.err])
        /\ UNCHANGED filter_open

\* a guest write, zero write or discard on a top node; child_ret is the
\* result the node below will give (the driver of a plain node, the child
\* of the filter)
Request(bs, kind, offset, bytes, flags, child_ret) ==
    /\ bs = FilterNode => filter_open
    /\ LET s == bdrv_co_request([State EXCEPT !.child_ret = child_ret], bs,
                                kind, offset, bytes, flags)
       IN  Commit(s, [NoOp EXCEPT !.op = "request", !.node = bs,
                                  !.kind = kind, !.offset = offset,
                                  !.bytes = bytes, !.flags = flags,
                                  !.child_ret = child_ret, !.ret = s.ret])
    /\ UNCHANGED filter_open

\* a guest read, flush or length query on the filter node
Query(kind, offset, bytes, flags, child_ret) ==
    /\ filter_open
    /\ LET s == bdrv_co_query([State EXCEPT !.child_ret = child_ret],
                              FilterNode, kind, offset, bytes, flags)
       IN  Commit(s, [NoOp EXCEPT !.op = "query", !.node = FilterNode,
                                  !.kind = kind, !.offset = offset,
                                  !.bytes = bytes, !.flags = flags,
                                  !.child_ret = child_ret, !.ret = s.ret])
    /\ UNCHANGED filter_open

\* filter0 is created over child0
OpenFilter(child_ok, opt) ==
    /\ ~filter_open
    /\ LET r == write_threshold_open(State, FilterNode, child_ok, opt)
       IN  /\ Commit(r.s, [NoOp EXCEPT !.op = "open", !.node = FilterNode,
                                       !.kind = opt.kind,
                                       !.value = opt.value, !.ret = r.ret])
           /\ filter_open' = (r.ret = "0")

\* filter0 is closed and deleted
CloseFilter ==
    /\ filter_open
    /\ Commit(bdrv_delete(write_threshold_close(State, FilterNode),
                          FilterNode),
              [NoOp EXCEPT !.op = "close", !.node = FilterNode, !.ret = "0"])
    /\ filter_open' = FALSE

Next ==
    \/ \E n \in NodeNames \cup UnknownNames, t \in SetValues :
           SetWriteThreshold(n, t)
    \/ \E bs \in TopNodes, k \in WriteKinds, r \in Ranges, f \in Flags,
          c \in ChildResults :
           /\ (bs # FilterNode \/ k = "pdiscard") => f = 0
           /\ bs # FilterNode => c = "0"
           /\ Request(bs, k, r.offset, r.bytes, f, c)
    \/ \E r \in Ranges, f \in Flags, c \in ChildResults :
           Query("preadv", r.offset, r.bytes, f, c)
    \/ \E k \in {"flush", "getlength"}, c \in ChildResults :
           Query(k, 0, 0, 0, c)
    \/ \E c \in BOOLEAN, opt \in Opts : OpenFilter(c, opt)
    \/ CloseFilter

Spec == Init /\ [][Next]_vars

(***************************************************************************)
(* The exceedance engine on its own: one call with arbitrary arguments.    *)
(***************************************************************************)
InitExceeded ==
    /\ InitNodes
    /\ exc_threshold \in ExcValues
    /\ exc_offset \in ExcValues
    /\ exc_bytes \in ExcValues
    /\ exc_amount = 0
    /\ exc_pc = "call"
    /\ InitNoProcs

CallExceeded ==
    /\ exc_pc = "call"
    /\ exc_amount' = bdrv_write_threshold_exceeded(exc_threshold, exc_offset,
                                                   exc_bytes)
    /\ exc_pc' = "done"
    /\ UNCHANGED <<node_vars, exc_threshold, exc_offset, exc_bytes, conc_vars>>

NextExceeded == CallExceeded

SpecExceeded == InitExceeded /\ [][NextExceeded]_vars

(***************************************************************************)
(* Concurrent use of one node: two write requests and one command.         *)
(*                                                                         *)
(* A request runs as a coroutine in the node's AioContext: it is entered   *)
(* when the context is free, runs until it suspends, which is where the    *)
(* request is handed to the device, and is completed later.  The command   *)
(* runs in the monitor and takes the node's AioContext for the set.  Each  *)
(* step below is one access to the node's fields, so that any interleaving *)
(* the contexts allow is a behaviour.  child0 has no hook installed here.  *)
(***************************************************************************)
\* the next state of a step of process p: p moves to label and keeps locals
\* loc; the node's fields, the context and the log are as given
CoStep(p, label, wto, ntf, opq, loc, owner, log) ==
    /\ pc' = [pc EXCEPT ![p] = label]
    /\ local' = [local EXCEPT ![p] = loc]
    /\ write_threshold_offset' = wto
    /\ write_threshold_notifier' = ntf
    /\ opaque' = opq
    /\ aio_owner' = owner
    /\ co_log' = log
    /\ UNCHANGED <<filter_open, sent, fired, prev, last, trace, aio_held,
                   exc_vars, co_bs>>

\* p moves to label and nothing else changes
CoGoto(p, label) ==
    CoStep(p, label, write_threshold_offset, write_threshold_notifier,
           opaque, local[p], aio_owner, co_log)

CoEntry(p, ev, guard, amount, threshold) ==
    [proc |-> p, ev |-> ev, guard |-> guard, amount |-> amount,
     write_threshold |-> threshold, read |-> local[p].threshold]

InitConc ==
    /\ co_bs \in TopNodes
    /\ filter_open = (co_bs = FilterNode)
    /\ \E t \in SetValues :
           /\ write_threshold_offset =
                  [n \in NodeNames |-> IF n = co_bs THEN t ELSE 0]
           /\ write_threshold_notifier =
                  [n \in NodeNames |-> IF n = co_bs /\ t > 0 THEN 1 ELSE 0]
    /\ opaque \in IF co_bs = FilterNode THEN SetValues ELSE {0}
    /\ sent = <<>>
    /\ trace = <<>>
    /\ aio_held = 0
    /\ fired = [g \in Guards |-> 0]
    /\ prev = [g \in Guards |-> GuardThreshold(State, g)]
    /\ last = NoOp
    /\ InitNoCall
    /\ pc = [p \in Procs |-> "idle"]
    /\ \E r1, r2 \in Ranges, v \in SetValues :
           local = [p \in Procs |->
                       CASE p = "w1" -> [NoLocals EXCEPT !.offset = r1.offset,
                                                         !.bytes = r1.bytes]
                         [] p = "w2" -> [NoLocals EXCEPT !.offset = r2.offset,
                                                         !.bytes = r2.bytes]
                         [] OTHER -> [NoLocals EXCEPT !.value = v]]
    /\ aio_owner = ""
    /\ co_log = <<>>

\* the context that owns the node enters the request's coroutine
co_request_enter(w) ==
    /\ pc[w] = "idle"
    /\ aio_owner = ""
    /\ CoStep(w, "notify", write_threshold_offset, write_threshold_notifier,
              opaque, local[w], w, co_log)

\* the block layer walks the node's before-write list
co_request_notify(w) ==
    /\ pc[w] = "notify"
    /\ CoGoto(w, IF write_threshold_notifier[co_bs] > 0
                 THEN "hook_read"
                 ELSE "driver")

\* before_write_notify: the threshold is read and the amount computed
co_before_write_notify_read(w) ==
    /\ pc[w] = "hook_read"
    /\ LET threshold == bdrv_write_threshold_get_legacy(State, co_bs)
           amount == bdrv_write_threshold_exceeded(
                         threshold, local[w].offset, local[w].bytes)
       IN  CoStep(w, IF amount > 0 THEN "hook_event" ELSE "hook_ret",
                  write_threshold_offset, write_threshold_notifier, opaque,
                  [local[w] EXCEPT !.threshold = threshold,
                                   !.amount = amount],
                  aio_owner, co_log)

\* before_write_notify: the event is sent with the field read once more
co_before_write_notify_event(w) ==
    /\ pc[w] = "hook_event"
    /\ CoStep(w, "disable_test", write_threshold_offset,
              write_threshold_notifier, opaque,
              [local[w] EXCEPT !.ret_to = "hook_ret"], aio_owner,
              Append(co_log,
                     CoEntry(w, "event", <<"legacy", co_bs>>,
                             local[w].amount,
                             write_threshold_offset[co_bs])))

co_before_write_notify_return(w) ==
    /\ pc[w] = "hook_ret"
    /\ CoGoto(w, "driver")

\* write_threshold_disable_legacy, called by the hook and by the set
co_disable_legacy_test(p) ==
    /\ pc[p] = "disable_test"
    /\ CoGoto(p, IF bdrv_write_threshold_is_set_legacy(State, co_bs)
                 THEN "disable_remove"
                 ELSE local[p].ret_to)

co_disable_legacy_remove(p) ==
    /\ pc[p] = "disable_remove"
    /\ CoStep(p, "disable_clear", write_threshold_offset,
              notifier_with_return_remove(State, co_bs).ntf, opaque,
              local[p], aio_owner, co_log)

co_disable_legacy_clear(p) ==
    /\ pc[p] = "disable_clear"
    /\ CoStep(p, local[p].ret_to,
              [write_threshold_offset EXCEPT ![co_bs] = 0],
              write_threshold_notifier, opaque, local[p], aio_owner, co_log)

\* the block layer calls the node's driver: the filter's entry point, or
\* the device of a plain node
co_request_driver(w) ==
    /\ pc[w] = "driver"
    /\ CoGoto(w, IF co_bs = FilterNode THEN "check_read" ELSE "issue")

\* bdrv_write_threshold_check_amount: threshold read, amount computed
co_check_amount_read(w) ==
    /\ pc[w] = "check_read"
    /\ LET threshold == opaque
           amount == bdrv_write_threshold_exceeded(
                         threshold, local[w].offset, local[w].bytes)
       IN  CoStep(w, IF amount > 0 THEN "check_event" ELSE "issue",
                  write_threshold_offset, write_threshold_notifier, opaque,
                  [local[w] EXCEPT !.threshold = threshold,
                                   !.amount = amount],
                  aio_owner, co_log)

\* bdrv_write_threshold_check_amount: the event carries the local copy
co_check_amount_event(w) ==
    /\ pc[w] = "check_event"
    /\ CoStep(w, "fdisable_test", write_threshold_offset,
              write_threshold_notifier, opaque, local[w], aio_owner,
              Append(co_log,
                     CoEntry(w, "event", <<"filter", co_bs>>,
                             local[w].amount, local[w].threshold)))

\* bdrv_write_threshold_disable
co_disable_test(w) ==
    /\ pc[w] = "fdisable_test"
    /\ CoGoto(w, IF bdrv_write_threshold_is_set(State, co_bs)
                 THEN "fdisable_clear"
                 ELSE "issue")

\* the threshold is left as it is
co_disable_clear_skips(w) ==
    /\ pc[w] = "fdisable_clear"
    /\ CoGoto(w, "issue")

co_disable_clear(w) ==
    /\ pc[w] = "fdisable_clear"
    /\ CoStep(w, "issue", write_threshold_offset, write_threshold_notifier,
              0, local[w], aio_owner, co_log)

\* the request is handed on (to the child of the filter, or to the device)
\* and the coroutine suspends until it is done
co_request_issue(w) ==
    /\ pc[w] = "issue"
    /\ CoStep(w, "inflight", write_threshold_offset,
              write_threshold_notifier, opaque, local[w], "",
              Append(co_log, CoEntry(w, "forward", <<"io", co_bs>>, 0, 0)))

\* the request is done and the coroutine ends
co_request_complete(w) ==
    /\ pc[w] = "inflight"
    /\ aio_owner = ""
    /\ CoStep(w, "done", write_threshold_offset, write_threshold_notifier,
              opaque, local[w], aio_owner,
              Append(co_log, CoEntry(w, "complete", <<"io", co_bs>>, 0, 0)))

\* qmp_block_set_write_threshold: the node is looked up
co_qmp_find ==
    /\ pc["qmp"] = "idle"
    /\ CoGoto("qmp", IF bdrv_find_node(co_bs, filter_open) = ""
                     THEN "done"
                     ELSE "acquire")

\* the set is started without taking the node's context
co_qmp_acquire_unlocked ==
    /\ pc["qmp"] = "acquire"
    /\ CoGoto("qmp", "set_test")

\* qmp_block_set_write_threshold: aio_context_acquire
co_qmp_acquire ==
    /\ pc["qmp"] = "acquire"
    /\ aio_owner = ""
    /\ CoStep("qmp", "set_test", write_threshold_offset,
              write_threshold_notifier, opaque, local["qmp"], "qmp", co_log)

\* bdrv_write_threshold_set_legacy: the two tests
co_set_legacy_test ==
    /\ pc["qmp"] = "set_test"
    /\ LET armed == bdrv_write_threshold_is_set_legacy(State, co_bs)
           positive == local["qmp"].value > 0
       IN  CoStep("qmp",
                  CASE armed /\ positive -> "set_update"
                    [] armed /\ ~positive -> "disable_test"
                    [] ~armed /\ positive -> "set_register"
                    [] OTHER -> "release",
                  write_threshold_offset, write_threshold_notifier, opaque,
                  [local["qmp"] EXCEPT !.ret_to = "release"], aio_owner,
                  co_log)

\* write_threshold_register_notifier
co_set_legacy_register ==
    /\ pc["qmp"] = "set_register"
    /\ CoStep("qmp", "set_update", write_threshold_offset,
              write_threshold_register_notifier(State, co_bs).ntf, opaque,
              local["qmp"], aio_owner, co_log)

\* write_threshold_update_legacy
co_set_legacy_update ==
    /\ pc["qmp"] = "set_update"
    /\ CoStep("qmp", "release",
              write_threshold_update_legacy(State, co_bs,
                                            ToInt64(local["qmp"].value)).wto,
              write_threshold_notifier, opaque, local["qmp"], aio_owner,
              co_log)

\* qmp_block_set_write_threshold: aio_context_release
co_qmp_release ==
    /\ pc["qmp"] = "release"
    /\ CoStep("qmp", "done", write_threshold_offset,
              write_threshold_notifier, opaque, local["qmp"],
              IF aio_owner = "qmp" THEN "" ELSE aio_owner, co_log)

NextConc ==
    \/ \E w \in Writers : co_request_enter(w)
    \/ \E w \in Writers : co_request_notify(w)
    \/ \E w \in Writers : co_before_write_notify_read(w)
    \/ \E w \in Writers : co_before_write_notify_event(w)
    \/ \E w \in Writers : co_before_write_notify_return(w)
    \/ \E p \in Procs : co_disable_legacy_test(p)
    \/ \E p \in Procs : co_disable_legacy_remove(p)
    \/ \E p \in Procs : co_disable_legacy_clear(p)
    \/ \E w \in Writers : co_request_driver(w)
    \/ \E w \in Writers : co_check_amount_read(w)
    \/ \E w \in Writers : co_check_amount_event(w)
    \/ \E w \in Writers : co_disable_test(w)
    \/ \E w \in Writers : co_disable_clear(w)
    \/ \E w \in Writers : co_request_issue(w)
    \/ \E w \in Writers : co_request_complete(w)
    \/ co_qmp_find
    \/ co_qmp_acquire
    \/ co_set_legacy_test
    \/ co_set_legacy_register
    \/ co_set_legacy_update
    \/ co_qmp_release

SpecConc == InitConc /\ [][NextConc]_vars

TypeOK ==
    /\ \A n \in NodeNames : write_threshold_offset[n] \in 0 .. UINT64_MAX
    /\ opaque \in 0 .. UINT64_MAX
    /\ exc_amount \in 0 .. UINT64_MAX

(***************************************************************************)
(* Vocabulary of the properties.                                           *)
(***************************************************************************)
LegacyGuard(bs) == <<"legacy", bs>>

FilterGuard == <<"filter", FilterNode>>

IsRequest == last.op = "request"

\* the last operation was a request that passed guard g
Reached(g) ==
    /\ IsRequest
    /\ IF last.node = FilterNode
       THEN g[2] \in {FilterNode, child_bs(FilterNode)}
       ELSE g = LegacyGuard(last.node)

\* the request range of the last operation extends past the mark t
Exceeds(t) == t > 0 /\ last.offset + last.bytes > t

\* the events guard g sent in the last operation
EventsBy(g) == SelectSeq(sent, LAMBDA e : e.guard = g)

\* is_set() of guard g
IsSet(g) ==
    IF g[1] = "legacy"
    THEN bdrv_write_threshold_is_set_legacy(State, g[2])
    ELSE bdrv_write_threshold_is_set(State, g[2])

\* operation l set the threshold of guard g: the command on the guard's
\* node, or the open of the filter with a numeric option
SetOn(g, l) ==
    IF g[1] = "legacy"
    THEN l.op = "set" /\ l.node = g[2] /\ l.ret = ""
    ELSE l.op = "open" /\ l.node = g[2] /\ l.kind = "number" /\ l.ret = "0"

(***************************************************************************)
(* C1: a guard sends at most one event per armed period: never more than   *)
(* one since it was last armed, exactly one for the first exceeding        *)
(* request after arming, and none for any request while it is disarmed.    *)
(***************************************************************************)
C1_OneEventPerArmedPeriod ==
    \A g \in Guards :
        /\ fired[g] <= 1
        /\ Reached(g) /\ Exceeds(prev[g]) =>
               fired[g] = 1 /\ Len(EventsBy(g)) = 1
        /\ Reached(g) /\ prev[g] = 0 => EventsBy(g) = <<>>

\* a request far beyond the former mark passes a guard that has already
\* fired and sends nothing
C1_Witness ==
    \E g \in Guards :
        /\ Reached(g)
        /\ last.offset = Threshold15MiB + 1
        /\ prev[g] = 0
        /\ fired[g] = 1
        /\ sent = <<>>

(***************************************************************************)
(* C2: a check whose amount is > 0 sends exactly one event and leaves the  *)
(* guard disarmed; the same request repeated at once sends nothing and     *)
(* leaves the threshold at 0.                                              *)
(***************************************************************************)
C2_TriggerDisarms ==
    /\ [](\A g \in Guards :
              Reached(g) /\ bdrv_write_threshold_exceeded(
                                prev[g], last.offset, last.bytes) > 0 =>
                  /\ Len(EventsBy(g)) = 1
                  /\ Now(g) = 0
                  /\ ~IsSet(g))
    /\ [][\A g \in Guards :
              (/\ Reached(g)
               /\ Len(EventsBy(g)) = 1
               /\ last'.op = "request"
               /\ last'.node = last.node
               /\ last'.offset = last.offset
               /\ last'.bytes = last.bytes) =>
                  /\ SelectSeq(sent', LAMBDA e : e.guard = g) = <<>>
                  /\ GuardThreshold(State, g)' = 0]_vars

\* the filter has just sent its event for a straddling write and is disarmed
C2_Witness ==
    /\ Reached(FilterGuard)
    /\ prev[FilterGuard] = Threshold4MiB
    /\ last.offset = Threshold4MiB - KiB
    /\ last.bytes = 2 * KiB
    /\ Len(EventsBy(FilterGuard)) = 1
    /\ opaque = 0

C3_WitnessLegacy ==
    /\ LegacyGuard("drive0") \in last.rearmed
    /\ SetOn(LegacyGuard("drive0"), last)
    /\ Now(LegacyGuard("drive0")) = last.value

(***************************************************************************)
(* Vocabulary of the properties of the exceedance engine.                  *)
(***************************************************************************)
ExcDone == exc_pc = "done"

\* the documented precondition: offset + bytes fits in 64 bits
ExcInRange == exc_offset + exc_bytes <= UINT64_MAX

\* the amount over the unbounded integers
ExceededIdeal(threshold, offset, bytes) ==
    IF threshold = 0
    THEN 0
    ELSE IF offset > threshold
         THEN (offset - threshold) + bytes
         ELSE IF offset + bytes > threshold
              THEN (offset + bytes) - threshold
              ELSE 0

(***************************************************************************)
(* C4: for threshold > 0 and a request range in the 64-bit range that      *)
(* ends past the mark, the amount is (offset + bytes) - threshold, which   *)
(* is (offset - threshold) + bytes when the request starts past the mark;  *)
(* threshold 4 MiB, offset 4 MiB - 1 KiB, bytes 2 KiB gives 1 KiB.         *)
(***************************************************************************)
C4_ExceededAmount ==
    ExcDone /\ exc_threshold > 0 /\ ExcInRange
            /\ exc_offset + exc_bytes > exc_threshold =>
        /\ exc_amount = (exc_offset + exc_bytes) - exc_threshold
        /\ exc_offset > exc_threshold =>
               exc_amount = (exc_offset - exc_threshold) + exc_bytes
        /\ (/\ exc_threshold = 4194304
            /\ exc_offset = 4194304 - 1024
            /\ exc_bytes = 2048) => exc_amount = 1024

\* the straddling request of the unit test
C4_Witness ==
    /\ ExcDone
    /\ exc_threshold = Threshold4MiB
    /\ exc_offset = Threshold4MiB - KiB
    /\ exc_bytes = 2 * KiB
    /\ exc_amount = KiB

\* a request that starts past the mark
C4_WitnessBeyond ==
    /\ ExcDone
    /\ ExcInRange
    /\ exc_threshold > 0
    /\ exc_offset > exc_threshold
    /\ exc_bytes > 0
    /\ exc_amount = (exc_offset - exc_threshold) + exc_bytes

(***************************************************************************)
(* C5: the amount is 0 when the threshold is 0, whatever the request, and  *)
(* when the request ends at or before the mark.                            *)
(***************************************************************************)
C5_ExceededZero ==
    ExcDone =>
        /\ exc_threshold = 0 => exc_amount = 0
        /\ exc_threshold > 0 /\ exc_offset + exc_bytes <= exc_threshold =>
               exc_amount = 0

\* a request that ends exactly at the mark
C5_Witness ==
    /\ ExcDone
    /\ exc_threshold > 0
    /\ exc_bytes > 0
    /\ exc_offset + exc_bytes = exc_threshold
    /\ exc_amount = 0

\* a disabled threshold and a request at the top of the range
C5_WitnessDisabled ==
    /\ ExcDone
    /\ exc_threshold = 0
    /\ exc_offset = UINT64_MAX
    /\ exc_bytes = UINT64_MAX
    /\ exc_amount = 0

(***************************************************************************)
(* C6: when offset + bytes fits in 64 bits, no expression evaluated by     *)
(* the engine wraps, and the amount is the one over unbounded integers.    *)
(***************************************************************************)
C6_NoWrap ==
    ExcDone /\ ExcInRange =>
        /\ \A v \in exceeded_intermediates(exc_threshold, exc_offset,
                                           exc_bytes) :
               0 <= v /\ v <= UINT64_MAX
        /\ exc_amount = ExceededIdeal(exc_threshold, exc_offset, exc_bytes)

\* a request that starts far past the mark and ends at the top of the range
C6_Witness ==
    /\ ExcDone
    /\ exc_threshold = 1
    /\ exc_offset + exc_bytes = UINT64_MAX
    /\ exc_bytes > 0
    /\ exc_amount = UINT64_MAX - 1

(***************************************************************************)
(* C7: setting a positive threshold T, whatever the guard held before,     *)
(* leaves the guard set with value T; a second positive value replaces     *)
(* the first.                                                              *)
(***************************************************************************)
C7_SetGet ==
    \A g \in Guards :
        SetOn(g, last) /\ last.value > 0 =>
            /\ IsSet(g)
            /\ Now(g) = last.value
            /\ g[1] = "legacy" =>
                   bdrv_write_threshold_get_legacy(State, g[2]) = last.value

\* 15 MiB set on a legacy guard that was armed at 4 MiB
C7_Witness ==
    /\ SetOn(LegacyGuard("drive0"), last)
    /\ prev[LegacyGuard("drive0")] = Threshold4MiB
    /\ last.value = Threshold15MiB
    /\ write_threshold_offset["drive0"] = Threshold15MiB

(***************************************************************************)
(* C8: a fresh guard is disarmed: the zero-initialised legacy node, and a  *)
(* filter node opened without the threshold option.                        *)
(***************************************************************************)
C8_FreshDisarmed ==
    /\ last.op = "init" =>
           \A g \in Guards : ~IsSet(g) /\ Now(g) = 0
    /\ last.op = "open" /\ last.kind = "absent" /\ last.ret = "0" =>
           /\ ~IsSet(FilterGuard) /\ Now(FilterGuard) = 0
           /\ ~IsSet(LegacyGuard(FilterNode))
           /\ bdrv_write_threshold_get_legacy(State, FilterNode) = 0

\* the filter has just been opened without the option
C8_Witness ==
    /\ last.op = "open"
    /\ last.kind = "absent"
    /\ last.ret = "0"
    /\ filter_open
    /\ opaque = 0

(***************************************************************************)
(* C9: a disable request on a disarmed guard does nothing: no error, the   *)
(* threshold stays 0, the hook registration is untouched, no event.        *)
(***************************************************************************)
C9_DisableDisarmedNoOp ==
    [][\A g \in Guards :
           (Now(g) = 0 /\ SetOn(g, last') /\ last'.value = 0) =>
               /\ write_threshold_offset' = write_threshold_offset
               /\ write_threshold_notifier' = write_threshold_notifier
               /\ opaque' = opaque
               /\ sent' = <<>>
               /\ last'.ret \in {"", "0"}]_vars

\* the command with 0 on a legacy guard that a trigger had disarmed
C9_Witness ==
    /\ SetOn(LegacyGuard("drive0"), last)
    /\ last.value = 0
    /\ prev[LegacyGuard("drive0")] = 0
    /\ fired[LegacyGuard("drive0")] = 1
    /\ write_threshold_offset["drive0"] = 0
    /\ write_threshold_notifier["drive0"] = 0

(***************************************************************************)
(* C10: a disable request on an armed guard disarms it: the threshold      *)
(* reads 0, the legacy hook is no longer installed, and no request sends   *)
(* an event for the guard while it stays disarmed.                         *)
(***************************************************************************)
C10_DisableArmed ==
    \A g \in Guards :
        /\ (SetOn(g, last) /\ last.value = 0 /\ prev[g] > 0) =>
               /\ Now(g) = 0
               /\ ~IsSet(g)
               /\ g[1] = "legacy" => write_threshold_notifier[g[2]] = 0
               /\ sent = <<>>
        /\ (Reached(g) /\ prev[g] = 0) =>
               /\ EventsBy(g) = <<>>
               /\ Now(g) = 0

\* the command with 0 on a legacy guard armed at 4 MiB
C10_Witness ==
    /\ SetOn(LegacyGuard("drive0"), last)
    /\ last.value = 0
    /\ prev[LegacyGuard("drive0")] = Threshold4MiB
    /\ write_threshold_offset["drive0"] = 0
    /\ write_threshold_notifier["drive0"] = 0

(***************************************************************************)
(* Vocabulary of the properties about what an operation did.               *)
(***************************************************************************)
\* the entries of the trace of kind ev
StepsOf(ev) == SelectSeq(trace, LAMBDA e : e.ev = ev)

\* the positions of the trace that hold an entry of kind ev
PositionsOf(ev) == {i \in 1 .. Len(trace) : trace[i].ev = ev}

IsFilterRequest == last.op = "request" /\ last.node = FilterNode

(***************************************************************************)
(* C11: the guard observes and never blocks: a write, zero write or        *)
(* discard on the filter is issued to the child exactly once, with the     *)
(* same offset, bytes and flags, whether or not an event was sent; the     *)
(* caller gets the child's result; the legacy hook always returns success. *)
(***************************************************************************)
C11_NeverBlocks ==
    /\ IsFilterRequest =>
           /\ Len(StepsOf("forward")) = 1
           /\ LET f == StepsOf("forward")[1]
              IN  /\ f.node = child_bs(FilterNode)
                  /\ f.kind = last.kind
                  /\ f.offset = last.offset
                  /\ f.bytes = last.bytes
                  /\ last.kind # "pdiscard" => f.flags = last.flags
                  /\ f.ret = last.child_ret
           /\ last.ret = last.child_ret
    /\ \A i \in PositionsOf("hook_ret") : trace[i].ret = "0"

\* a flagged straddling write on the filter sent its event, reached the
\* child and failed there; the caller got the child's error
C11_Witness ==
    /\ IsFilterRequest
    /\ last.kind = "pwritev"
    /\ last.flags = 1
    /\ last.child_ret = "-EIO"
    /\ Len(EventsBy(FilterGuard)) = 1
    /\ Len(StepsOf("forward")) = 1
    /\ last.ret = "-EIO"

(***************************************************************************)
(* C12: the legacy adapter (on drive0) and the filter (filter0) behave     *)
(* alike: when both hold the same threshold, the same command or the same  *)
(* request applied to each sends events with the same amounts and          *)
(* thresholds and leaves both with the same threshold.                     *)
(***************************************************************************)
\* amount and threshold of each event of a sequence
Payload(seq) == [i \in 1 .. Len(seq) |-> <<seq[i].amount, seq[i].write_threshold>>]

\* the filter is open, only its own state guards filter0, and it holds the
\* threshold the legacy adapter of drive0 holds
SameThreshold ==
    /\ filter_open
    /\ \A n \in {FilterNode, child_bs(FilterNode)} :
           write_threshold_offset[n] = 0 /\ write_threshold_notifier[n] = 0
    /\ opaque = write_threshold_offset["drive0"]

C12_VariantsAgree ==
    SameThreshold =>
        /\ \A v \in SetValues :
               LET a == qmp_block_set_write_threshold(State, "drive0", v,
                                                      filter_open).s
                   b == qmp_block_set_write_threshold(State, FilterNode, v,
                                                      filter_open).s
               IN  /\ Payload(a.sent) = Payload(b.sent)
                   /\ a.wto["drive0"] = b.opaque
        /\ \A k \in WriteKinds, r \in Ranges :
               LET a == bdrv_co_request(State, "drive0", k, r.offset,
                                        r.bytes, 0)
                   b == bdrv_co_request(State, FilterNode, k, r.offset,
                                        r.bytes, 0)
               IN  /\ Payload(a.sent) = Payload(b.sent)
                   /\ a.wto["drive0"] = b.opaque

\* the requests alone: with equal thresholds the two checks agree
C12_RequestsAgree ==
    SameThreshold =>
        \A k \in WriteKinds, r \in Ranges :
            LET a == bdrv_co_request(State, "drive0", k, r.offset, r.bytes, 0)
                b == bdrv_co_request(State, FilterNode, k, r.offset, r.bytes,
                                     0)
            IN  /\ Payload(a.sent) = Payload(b.sent)
                /\ a.wto["drive0"] = b.opaque

(***************************************************************************)
(* C13: the command on an unknown node fails with "not found" and changes  *)
(* nothing: no threshold, no hook registration, no event, no context       *)
(* taken.  On a known node it takes the node's context, sets the           *)
(* threshold and gives the context back; the context is never held once    *)
(* the command has returned.                                               *)
(***************************************************************************)
C13_CommandContext ==
    /\ [](aio_held = 0)
    /\ [][last'.op = "set" =>
              /\ last'.ret = "not found" <=>
                     bdrv_find_node(last'.node, filter_open) = ""
              /\ last'.ret = "not found" =>
                     /\ write_threshold_offset' = write_threshold_offset
                     /\ write_threshold_notifier' = write_threshold_notifier
                     /\ opaque' = opaque
                     /\ sent' = <<>>
                     /\ trace' = <<>>
              /\ last'.ret # "not found" =>
                     /\ last'.ret = ""
                     /\ Len(trace') >= 2
                     /\ trace'[1] = Step("acquire", last'.node)
                     /\ trace'[Len(trace')] = Step("release", last'.node)
                     /\ \A i \in 2 .. Len(trace') - 1 :
                            /\ trace'[i].ev \in {"register", "update",
                                                 "remove", "clear"}
                            /\ trace'[i].node = last'.node]_vars

\* the command named an unknown node while drive0 was armed
C13_Witness ==
    /\ last.op = "set"
    /\ last.node \in UnknownNames
    /\ last.value = 0
    /\ last.ret = "not found"
    /\ write_threshold_offset["drive0"] = Threshold4MiB
    /\ write_threshold_notifier["drive0"] = 1
    /\ aio_held = 0

(***************************************************************************)
(* Vocabulary of the properties of concurrent use.                         *)
(***************************************************************************)
\* the labels inside the read-check-disarm sequence of a request
CheckLabels == {"hook_read", "hook_event", "hook_ret", "disable_test",
                "disable_remove", "disable_clear", "check_read",
                "check_event", "fdisable_test", "fdisable_clear"}

\* the labels inside the set of the command
SetLabels == {"set_test", "set_register", "set_update", "disable_test",
              "disable_remove", "disable_clear"}

\* the process is inside a sequence that reads and then writes the threshold
InSequence(p) == pc[p] \in (IF p = "qmp" THEN SetLabels ELSE CheckLabels)

\* the events guard g has sent
CoEventsBy(g) == SelectSeq(co_log, LAMBDA e : e.ev = "event" /\ e.guard = g)

\* the request of w has passed its checks
Checked(w) == pc[w] \in {"issue", "inflight", "done"}

\* the request of w ends past mark t
CoExceeds(w, t) == t > 0 /\ local[w].offset + local[w].bytes > t

(***************************************************************************)
(* C14: of two concurrent write requests on an armed node that both end    *)
(* past the mark exactly one sends the event: the read-check-disarm        *)
(* sequences of the two are never interleaved, and once both requests      *)
(* have passed their checks (no command having run) each guard that was    *)
(* armed has sent one event.                                               *)
(***************************************************************************)
C14_OneEventOfTwo ==
    /\ Cardinality({w \in Writers : InSequence(w)}) <= 1
    /\ pc["qmp"] = "idle" =>
           \A g \in {<<"legacy", co_bs>>, <<"filter", co_bs>>} \cap Guards :
               /\ Len(CoEventsBy(g)) <= 1
               /\ ((\A w \in Writers : Checked(w) /\ CoExceeds(w, prev[g]))
                      => Len(CoEventsBy(g)) = 1)

\* both requests cross the 4 MiB mark of the filter; w2 was first, sent the
\* event and is still in flight when w1 has passed its check without one
C14_Witness ==
    /\ co_bs = FilterNode
    /\ prev[FilterGuard] = Threshold4MiB
    /\ pc["qmp"] = "idle"
    /\ \A w \in Writers : CoExceeds(w, Threshold4MiB)
    /\ pc["w2"] = "inflight"
    /\ pc["w1"] = "inflight"
    /\ Len(CoEventsBy(FilterGuard)) = 1
    /\ CoEventsBy(FilterGuard)[1].proc = "w2"
    /\ opaque = 0

(***************************************************************************)
(* C15: the set of the command and the read-check-disarm sequence of a     *)
(* request exclude each other on a node: never are two processes inside    *)
(* such a sequence; once a command that disables has returned, the         *)
(* threshold reads 0 and the hook is not installed, whatever a concurrent  *)
(* triggering request did; and every event carries the threshold its       *)
(* check read, which is > 0.                                               *)
(***************************************************************************)
C15_SetExcludesCheck ==
    /\ Cardinality({p \in Procs : InSequence(p)}) <= 1
    /\ (pc["qmp"] = "done" /\ local["qmp"].value = 0) =>
           /\ write_threshold_offset[co_bs] = 0
           /\ write_threshold_notifier[co_bs] = 0
    /\ \A i \in 1 .. Len(co_log) :
           co_log[i].ev = "event" =>
               /\ co_log[i].write_threshold = co_log[i].read
               /\ co_log[i].write_threshold > 0

\* the request of w1 triggered on the legacy node and is in flight; the
\* disable of the command has come after it and both are done
C15_Witness ==
    /\ co_bs = "drive0"
    /\ prev[LegacyGuard("drive0")] = Threshold4MiB
    /\ local["qmp"].value = 0
    /\ pc["qmp"] = "done"
    /\ pc["w1"] = "done"
    /\ Len(CoEventsBy(LegacyGuard("drive0"))) = 1
    /\ CoEventsBy(LegacyGuard("drive0"))[1].proc = "w1"
    /\ write_threshold_offset["drive0"] = 0
    /\ write_threshold_notifier["drive0"] = 0

\* the command set 15 MiB on the node armed at 4 MiB before the request of
\* w1, which starts past 15 MiB, was checked: the event carries 15 MiB
C15_WitnessSet ==
    /\ co_bs = "drive0"
    /\ prev[LegacyGuard("drive0")] = Threshold4MiB
    /\ local["qmp"].value = Threshold15MiB
    /\ pc["qmp"] = "done"
    /\ Len(CoEventsBy(LegacyGuard("drive0"))) = 1
    /\ CoEventsBy(LegacyGuard("drive0"))[1].write_threshold = Threshold15MiB

(***************************************************************************)
(* C16: on each write-shaped entry point of the filter the check, with its *)
(* event and its auto-disarm, is done before the request is issued to the  *)
(* child and nothing else happens in between; the event's amount is the    *)
(* one of this request's offset and bytes against the threshold the check  *)
(* read.                                                                   *)
(***************************************************************************)
C16_CheckBeforeForward ==
    IsFilterRequest =>
        \E c, f \in 1 .. Len(trace) :
            /\ PositionsOf("check") = {c}
            /\ PositionsOf("forward") = {f}
            /\ c < f
            /\ trace[c].node = FilterNode
            /\ trace[c].val = prev[FilterGuard]
            /\ \A i \in (c + 1) .. (f - 1) :
                   /\ trace[i].node = FilterNode
                   /\ \/ trace[i].ev = "event" /\ trace[i].kind = "filter"
                      \/ trace[i].ev = "clear_opaque"
            /\ \A i \in 1 .. Len(trace) :
                   (\/ trace[i].ev = "event" /\ trace[i].kind = "filter"
                    \/ trace[i].ev = "clear_opaque") =>
                       c < i /\ i < f
            /\ \A i \in PositionsOf("event") :
                   trace[i].kind = "filter" =>
                       trace[i].val = bdrv_write_threshold_exceeded(
                                          trace[c].val, last.offset,
                                          last.bytes)
            /\ bdrv_write_threshold_exceeded(
                   trace[c].val, last.offset, last.bytes) > 0 =>
                   /\ trace[c + 1].ev = "event"
                   /\ trace[c + 2].ev = "clear_opaque"
                   /\ f = c + 3

\* a discard crossing the 4 MiB mark of the filter: check, event, disarm,
\* then the discard goes to the child
C16_Witness ==
    /\ IsFilterRequest
    /\ last.kind = "pdiscard"
    /\ prev[FilterGuard] = Threshold4MiB
    /\ \E c \in PositionsOf("check") :
           /\ trace[c + 1].ev = "event"
           /\ trace[c + 1].val = KiB
           /\ trace[c + 2].ev = "clear_opaque"
           /\ trace[c + 3].ev = "forward"
           /\ trace[c + 3].kind = "pdiscard"

(***************************************************************************)
(* C17: in the legacy adapter the hook is installed exactly when the       *)
(* threshold is > 0 and never twice; setting a new value on an armed       *)
(* guard leaves the hook alone; every disarm removes the hook before it    *)
(* clears the threshold; the hook never runs while the threshold reads 0.  *)
(***************************************************************************)
C17_HookIffArmed ==
    /\ \A n \in NodeNames :
           write_threshold_notifier[n] =
               IF write_threshold_offset[n] > 0 THEN 1 ELSE 0
    /\ \A n \in NodeNames :
           (SetOn(LegacyGuard(n), last) /\ last.value > 0
                /\ prev[LegacyGuard(n)] > 0) =>
               PositionsOf("register") \cup PositionsOf("remove") = {}
    /\ \A i \in PositionsOf("clear") :
           /\ i > 1
           /\ trace[i - 1] = Step("remove", trace[i].node)
    /\ \A i \in PositionsOf("hook") : trace[i].val > 0

\* a request has just made the legacy adapter of drive0 fire: the hook was
\* removed, then the threshold cleared
C17_Witness ==
    /\ Reached(LegacyGuard("drive0"))
    /\ prev[LegacyGuard("drive0")] = Threshold4MiB
    /\ Len(EventsBy(LegacyGuard("drive0"))) = 1
    /\ \E i \in PositionsOf("clear") : trace[i - 1].ev = "remove"
    /\ write_threshold_notifier["drive0"] = 0
    /\ write_threshold_offset["drive0"] = 0

(***************************************************************************)
(* C18: every event carries the amount by which the triggering request     *)
(* exceeds the threshold the guard held before the auto-disarm, and that   *)
(* threshold; both are > 0.                                                *)
(***************************************************************************)
C18_EventPayload ==
    \A i \in 1 .. Len(sent) :
        LET e == sent[i]
        IN  /\ Reached(e.guard)
            /\ e.amount = bdrv_write_threshold_exceeded(
                              prev[e.guard], last.offset, last.bytes)
            /\ e.write_threshold = prev[e.guard]
            /\ e.amount > 0
            /\ e.write_threshold > 0

\* the legacy adapter of drive0, armed at 15 MiB, fired for a request that
\* starts one byte past the mark
C18_Witness ==
    /\ Reached(LegacyGuard("drive0"))
    /\ last.offset = Threshold15MiB + 1
    /\ Len(sent) = 1
    /\ sent[1].guard = LegacyGuard("drive0")
    /\ sent[1].write_threshold = Threshold15MiB
    /\ sent[1].amount = KiB + 1

(***************************************************************************)
(* C19: a request that does not exceed (guard disarmed, or range ending at *)
(* or before the mark) sends no event and leaves the threshold and the     *)
(* hook registration as they were; the threshold of a guard changes only   *)
(* by a set, or by a check that sends an event (or when the filter node    *)
(* is closed, which ends the guard).                                       *)
(***************************************************************************)
\* operation l was a request that passed guard g
ReachedBy(l, g) ==
    /\ l.op = "request"
    /\ IF l.node = FilterNode
       THEN g[2] \in {FilterNode, child_bs(FilterNode)}
       ELSE g = LegacyGuard(l.node)

C19_Frame ==
    [][\A g \in Guards :
           /\ (/\ ReachedBy(last', g)
               /\ ~(Now(g) > 0 /\ last'.offset + last'.bytes > Now(g))) =>
                  /\ SelectSeq(sent', LAMBDA e : e.guard = g) = <<>>
                  /\ GuardThreshold(State, g)' = Now(g)
                  /\ g[1] = "legacy" =>
                         write_threshold_notifier'[g[2]] =
                             write_threshold_notifier[g[2]]
           /\ GuardThreshold(State, g)' # Now(g) =>
                  \/ SetOn(g, last')
                  \/ /\ ReachedBy(last', g)
                     /\ SelectSeq(sent', LAMBDA e : e.guard = g) # <<>>
                  \/ last'.op = "close" /\ g[2] = FilterNode]_vars

\* a request below the mark passed the armed filter and changed nothing
C19_Witness ==
    /\ Reached(FilterGuard)
    /\ last.offset = KiB
    /\ prev[FilterGuard] = Threshold4MiB
    /\ opaque = Threshold4MiB
    /\ sent = <<>>

(***************************************************************************)
(* C20: a read, flush or length query on the filter is passed to the       *)
(* child and does not touch the guard: no event, thresholds and hooks      *)
(* unchanged, also for a read past an armed mark.                          *)
(***************************************************************************)
C20_QueriesPassThrough ==
    [][last'.op = "query" =>
           /\ write_threshold_offset' = write_threshold_offset
           /\ write_threshold_notifier' = write_threshold_notifier
           /\ opaque' = opaque
           /\ sent' = <<>>
           /\ trace' = <<[Step("forward", child_bs(FilterNode))
                             EXCEPT !.kind = last'.kind,
                                    !.offset = last'.offset,
                                    !.bytes = last'.bytes,
                                    !.flags = last'.flags,
                                    !.ret = last'.child_ret]>>
           /\ last'.ret = last'.child_ret]_vars

\* a read past the 4 MiB mark of the armed filter
C20_Witness ==
    /\ last.op = "query"
    /\ last.kind = "preadv"
    /\ last.offset = Threshold15MiB + 1
    /\ prev[FilterGuard] = Threshold4MiB
    /\ opaque = Threshold4MiB
    /\ sent = <<>>

=============================================================================
